---- MODULE Spec2Model ----
(***************************************************************************)
(* A model of the Verilog AI agent: the pipeline orchestrator              *)
(* (VerilogAIAgent.process_design and its four stages), the generator's    *)
(* own sub-steps, the server's tool handlers and the verification          *)
(* analyzer's rule groups.                                                 *)
(*                                                                         *)
(* Files are paths [stem, ext] in one output directory; a stem is the      *)
(* sequence of the string parts the code concatenates (f"{stem}_tb.sv").   *)
(* In the pipeline and the tool handlers a file's content is an opaque     *)
(* text, named by its kind and by who produced it; the analyzers' rules    *)
(* are modelled on texts that are sequences of lexemes.                    *)
(***************************************************************************)
EXTENDS Integers, Sequences, FiniteSets, TLC

VARIABLES
  fs,                 \* the output directory: path -> text, for the files that exist
  loop,               \* the run whose synchronous code holds the event loop, 0 if none
  run,                \* per process_design call: position, locals and history
  call,               \* the tool handler invocation that finished last
  verilog_content,    \* the verilog_content of an analyzer object
  testbench_content,  \* the testbench_content of an analyzer object
  verification,       \* what verify_all returned for them, <<>> before the call
  optimization,       \* what optimize_all returned, <<>> before the call
  optimized,          \* what apply_optimizations returned, <<>> before the call
  module_info,        \* what the calls of extract_module_info returned, in order
  response,           \* the outcome of the last get_design, <<>> before the call
  analyzer            \* the calls made on an analyzer object, <<>> when there is none

\* what the analyzers and get_design produce, apart from the verification
outcomes == <<optimization, optimized, module_info, response, analyzer>>

vars ==
  <<fs, loop, run, call, verilog_content, testbench_content, verification, outcomes>>

None == "None"

-----------------------------------------------------------------------------
(* Bounds *)

MaxRuns == 2
Runs == 1..MaxRuns

\* module_name arguments a caller passes (None: absent)
ModuleNames == {"counter"}
\* module names the design plan of analyze_design may carry
PlanNames == {"counter", "design"}

-----------------------------------------------------------------------------
(* Paths and the output directory *)

Path(stem, ext) == [stem |-> stem, ext |-> ext]

\* output_dir / f"{name}.v", f"{name}_tb.sv", f"{name}_warnings.txt"
ModuleFile(name) == Path(<<name>>, ".v")
TestbenchFile(name) == Path(<<name, "_tb">>, ".sv")
WarningsFile(name) == Path(<<name, "_warnings">>, ".txt")
\* output_dir / f"{verilog_file.stem}_optimized.v" and the verifier's two files
OptimizedFile(p) == Path(Append(p.stem, "_optimized"), ".v")
AssertionsFile(p) == Path(Append(p.stem, "_assertions"), ".sv")
CoverageFile(p) == Path(Append(p.stem, "_coverage"), ".sv")
\* docs_dir / f"documentation.{format_name}"
DocFormats == {"markdown", "html", "yaml"}
DocFile(fmt) == Path(<<"docs", "/", "documentation">>, fmt)
\* a directory of the output directory, and whether a path lies in it
Dir(name) == Path(<<name, "/">>, "")
Under(p, name) == Len(p.stem) >= 3 /\ p.stem[1] = name /\ p.stem[2] = "/"

Exists(f, p) == p \in DOMAIN f
WriteText(f, p, text) == [q \in (DOMAIN f) \cup {p} |-> IF q = p THEN text ELSE f[q]]
Unlink(f, p) == [q \in (DOMAIN f) \ {p} |-> f[q]]
WriteAll(f, docs) ==
  LET ps == {DocFile(fmt) : fmt \in DOMAIN docs}
  IN [q \in (DOMAIN f) \cup ps |-> IF q \in ps THEN docs[q.ext] ELSE f[q]]

Text(kind, by) == [kind |-> kind, by |-> by]

\* docs_dir.mkdir(parents=True, exist_ok=True)
Mkdir(f, name) ==
  IF Exists(f, Dir(name)) THEN f ELSE WriteText(f, Dir(name), Text("directory", 0))

-----------------------------------------------------------------------------
(* The agent's three synchronous stages, as functions of the directory.      *)
(* fail is where the environment makes the stage raise: reading an input in  *)
(* the analyzer's constructor, or writing the stage's first output file. A   *)
(* missing input file makes the constructor's read_text raise by itself.     *)

FailPoints == {"none", "read", "write"}

\* value: <<>> when the stage raised, <<v>> when it returned v
StageRaised(f) == [ok |-> FALSE, fs |-> f, wrote |-> {}, read |-> {}, value |-> <<>>]

\* DesignOptimizer.optimize_all: the report is a function of the text analysed
OptimizeAll(code) == [kind |-> "optimization_report", of |-> code]

\* DesignOptimizer.apply_optimizations: the three hooks return the code as it is
\* an apply_optimizations that rewrites the text
ApplyOptimizationsRewriting(report, code) == Text("optimized", code.by)

ApplyOptimizations(report, code) == code

\* DesignVerifier.verify_all on opaque texts
VerifyAllReport(code, tb) == [kind |-> "verification_report", of |-> code, tb |-> tb]

GenerateAssertions(code) == Text("assertions", code.by)
GenerateCoverageModel(code) == Text("coverage_model", code.by)

\* DocGenerator.generate_all: one text per format
GenerateAll(code, tb) == [fmt \in DocFormats |-> Text(fmt, code.by)]

OptimizeDesign(f, verilog_file, fail) ==
  IF ~Exists(f, verilog_file) \/ fail = "read" THEN StageRaised(f)
  ELSE LET code == f[verilog_file]
           optimization_report == OptimizeAll(code)
           optimized_code == ApplyOptimizations(optimization_report, code)
           optimized_file == OptimizedFile(verilog_file)
       IN IF fail = "write"
          THEN StageRaised(f)
          ELSE [ok |-> TRUE,
                fs |-> WriteText(f, optimized_file, optimized_code),
                wrote |-> {optimized_file},
                read |-> {<<verilog_file, code>>},
                value |-> <<[report |-> optimization_report,
                             optimized_file |-> optimized_file]>>]

VerifyDesign(f, verilog_file, testbench_file, fail) ==
  IF ~Exists(f, verilog_file) \/ ~Exists(f, testbench_file) \/ fail = "read"
  THEN StageRaised(f)
  ELSE LET code == f[verilog_file]
           tb == f[testbench_file]
           inputs == {<<verilog_file, code>>, <<testbench_file, tb>>}
           verification_report == VerifyAllReport(code, tb)
           assertions_file == AssertionsFile(verilog_file)
           coverage_file == CoverageFile(verilog_file)
       IN IF fail = "write"
          THEN StageRaised(f)
          ELSE [ok |-> TRUE,
                fs |-> WriteText(WriteText(f, assertions_file, GenerateAssertions(code)),
                                 coverage_file, GenerateCoverageModel(code)),
                wrote |-> {assertions_file, coverage_file},
                read |-> inputs,
                value |-> <<[report |-> verification_report,
                             assertions_file |-> assertions_file,
                             coverage_file |-> coverage_file]>>]

GenerateDocumentation(f, verilog_file, testbench_file, fail) ==
  IF ~Exists(f, verilog_file) \/ ~Exists(f, testbench_file) \/ fail = "read"
  THEN StageRaised(f)
  ELSE LET code == f[verilog_file]
           tb == f[testbench_file]
           inputs == {<<verilog_file, code>>, <<testbench_file, tb>>}
           docs == GenerateAll(code, tb)
           doc_files == [fmt \in DocFormats |-> DocFile(fmt)]
       IN IF fail = "write"
          THEN [StageRaised(f) EXCEPT !.fs = Mkdir(f, "docs")]
          ELSE [ok |-> TRUE,
                fs |-> WriteAll(Mkdir(f, "docs"), docs),
                wrote |-> {doc_files[fmt] : fmt \in DocFormats},
                read |-> inputs,
                value |-> <<doc_files>>]

-----------------------------------------------------------------------------
(* process_design: one record per call.                                      *)
(*   pc       where the call is: awaiting one of the generator's four        *)
(*            requests, about to run a synchronous stage, returned, raised   *)
(*   stages   the stages invoked so far, completed those that returned       *)
(*   wrote    the files the call has written                                 *)
(*   read     what its stages that returned had read: stage, path, text      *)
(*   failed   the stage whose exception ended the call                       *)
(*   validation  how the model's answer to validate_code went               *)

StageOrder == <<"Generate", "Optimize", "Verify", "Document">>

NewRun ==
  [pc |-> "idle", module_name |-> None, plan |-> None, files |-> <<>>,
   optimization_results |-> <<>>, verification_results |-> <<>>,
   stages |-> <<>>, completed |-> <<>>, wrote |-> {}, read |-> {},
   failed |-> None, validation |-> None, result |-> <<>>]

\* a process_design that runs Optimize again once it has returned
StageAfterRetries(stage) ==
  CASE stage = "Generate" -> "optimize"
    [] stage = "Optimize" -> "optimize"
    [] stage = "Verify" -> "document"
    [] stage = "Document" -> "returned"

\* the statement process_design runs once a stage has returned
StageAfter(stage) ==
  CASE stage = "Generate" -> "optimize"
    [] stage = "Optimize" -> "verify"
    [] stage = "Verify" -> "document"
    [] stage = "Document" -> "returned"

Invoke(rec, stage) == [rec EXCEPT !.stages = Append(@, stage)]

Complete(rec, stage) ==
  [rec EXCEPT !.completed = Append(@, stage), !.pc = StageAfter(stage)]

\* an except clause that logs the error and returns what there is so far
AbortSwallowed(rec, stage) ==
  [rec EXCEPT !.pc = "returned", !.failed = stage,
              !.result = <<[files |-> rec.files, reports |-> <<>>]>>]

\* except Exception: log and raise; nothing is returned
Abort(rec, stage) == [rec EXCEPT !.pc = "raised", !.failed = stage]

Wrote(rec, ps) == [rec EXCEPT !.wrote = @ \cup ps]

Read(rec, stage, inputs) ==
  [rec EXCEPT !.read = @ \cup {<<stage, i[1], i[2]>> : i \in inputs}]

\* process_design is called: generate_design, generate, up to the first await
Start(r) ==
  /\ loop = 0
  /\ run[r].pc = "idle"
  /\ \E module_name \in ModuleNames \cup {None} :
       run' = [run EXCEPT ![r] = [Invoke(@, "Generate") EXCEPT
                                    !.module_name = module_name, !.pc = "analyze"]]
  /\ UNCHANGED <<fs, loop, call, verilog_content, testbench_content, verification, outcomes>>

\* analyze_design answers: the plan, its module name overridden by the argument
AnalyzeDone(r) ==
  /\ loop = 0
  /\ run[r].pc = "analyze"
  /\ \E ok \in BOOLEAN, planned \in PlanNames :
       run' = [run EXCEPT ![r] =
                 IF ok
                 THEN [@ EXCEPT !.plan = IF run[r].module_name # None
                                         THEN run[r].module_name ELSE planned,
                                !.pc = "generate_verilog"]
                 ELSE Abort(@, "Generate")]
  /\ UNCHANGED <<fs, loop, call, verilog_content, testbench_content, verification, outcomes>>

\* generate_verilog answers: the module file is written at once
GenerateVerilogDone(r) ==
  /\ loop = 0
  /\ run[r].pc = "generate_verilog"
  /\ \E ok \in BOOLEAN :
       IF ok
       THEN LET module_file == ModuleFile(run[r].plan)
            IN /\ fs' = WriteText(fs, module_file, Text("verilog", r))
               /\ run' = [run EXCEPT ![r] =
                            [Wrote(@, {module_file}) EXCEPT !.pc = "generate_testbench"]]
       ELSE /\ run' = [run EXCEPT ![r] = Abort(@, "Generate")]
            /\ fs' = fs
  /\ UNCHANGED <<loop, call, verilog_content, testbench_content, verification, outcomes>>

\* generate_testbench answers: the testbench file is written
GenerateTestbenchDone(r) ==
  /\ loop = 0
  /\ run[r].pc = "generate_testbench"
  /\ \E ok \in BOOLEAN :
       IF ok
       THEN LET testbench_file == TestbenchFile(run[r].plan)
            IN /\ fs' = WriteText(fs, testbench_file, Text("testbench", r))
               /\ run' = [run EXCEPT ![r] =
                            [Wrote(@, {testbench_file}) EXCEPT !.pc = "validate"]]
       ELSE /\ run' = [run EXCEPT ![r] = Abort(@, "Generate")]
            /\ fs' = fs
  /\ UNCHANGED <<loop, call, verilog_content, testbench_content, verification, outcomes>>

\* a validate_code without its try/except: the failure reaches generate
validate_code_raising(validation) ==
  [raised |-> validation = "raised",
   warnings |-> IF validation = "warnings" THEN <<"warning">> ELSE <<>>]

\* validate_code for a validation that finds warnings, finds none or fails:
\* except Exception returns the empty list
validate_code(validation) ==
  [raised |-> FALSE,
   warnings |-> IF validation = "warnings" THEN <<"warning">> ELSE <<>>]

\* validate_code answers; generate writes the warnings if there are any and
\* returns, generate_design names the two files, and process_design runs on
\* without another await. An exception out of validate_code would be raised
\* again by generate's except clause.
ValidateDone(r) ==
  /\ loop = 0
  /\ run[r].pc = "validate"
  /\ \E validation \in {"warnings", "clean", "raised"} :
       LET answer == validate_code(validation)
           warnings_file == WarningsFile(run[r].plan)
           warned == answer.warnings # <<>>
           name == IF run[r].module_name # None THEN run[r].module_name ELSE "design"
           files == [verilog |-> ModuleFile(name), testbench |-> TestbenchFile(name)]
           validated == [run[r] EXCEPT !.validation = validation]
       IN IF answer.raised
          THEN /\ run' = [run EXCEPT ![r] = Abort(validated, "Generate")]
               /\ fs' = fs
               /\ loop' = loop
          ELSE /\ fs' = IF warned THEN WriteText(fs, warnings_file, Text("warnings", r))
                        ELSE fs
               /\ run' = [run EXCEPT ![r] =
                            Complete([Wrote(validated, IF warned THEN {warnings_file} ELSE {})
                                        EXCEPT !.files = <<files>>], "Generate")]
               /\ loop' = r
  /\ UNCHANGED <<call, verilog_content, testbench_content, verification, outcomes>>

\* the outcome of a synchronous stage of run r, which holds the event loop
StageOutcome(r, stage, field, res) ==
  LET started == Read(Invoke(run[r], stage), stage, res.read)
  IN /\ fs' = res.fs
     /\ IF res.ok
        THEN /\ run' = [run EXCEPT ![r] =
                          Complete([Wrote(started, res.wrote) EXCEPT ![field] = res.value],
                                   stage)]
             /\ loop' = IF stage = "Document" THEN 0 ELSE r
        ELSE /\ run' = [run EXCEPT ![r] = Abort(started, stage)]
             /\ loop' = 0

\* a process_design that hands every stage the original source
SourceForOriginal(rec, stage) == rec.files[1].verilog

\* the source file process_design hands to a stage: files["verilog"] to
\* Optimize, optimization_results["optimized_file"] to Verify and Document
SourceFor(rec, stage) ==
  IF stage = "Optimize" THEN rec.files[1].verilog
  ELSE rec.optimization_results[1].optimized_file

\* Stage 2: optimize_design(files["verilog"])
Optimize(r) ==
  /\ loop = r
  /\ run[r].pc = "optimize"
  /\ \E fail \in FailPoints :
       StageOutcome(r, "Optimize", "optimization_results",
                    OptimizeDesign(fs, SourceFor(run[r], "Optimize"), fail))
  /\ UNCHANGED <<call, verilog_content, testbench_content, verification, outcomes>>

\* Stage 3: verify_design(optimized_file, files["testbench"])
Verify(r) ==
  /\ loop = r
  /\ run[r].pc = "verify"
  /\ \E fail \in FailPoints :
       StageOutcome(r, "Verify", "verification_results",
                    VerifyDesign(fs, SourceFor(run[r], "Verify"),
                                 run[r].files[1].testbench, fail))
  /\ UNCHANGED <<call, verilog_content, testbench_content, verification, outcomes>>

\* the dictionary process_design returns
FinalReport(rec, documentation_files) ==
  [files |-> [original |-> rec.files[1],
              optimized |-> rec.optimization_results[1].optimized_file,
              verification |-> [assertions |-> rec.verification_results[1].assertions_file,
                                coverage |-> rec.verification_results[1].coverage_file],
              documentation |-> documentation_files],
   reports |-> [optimization |-> rec.optimization_results[1].report,
                verification |-> rec.verification_results[1].report]]

\* Stage 4: generate_documentation(optimized_file, files["testbench"]), and the
\* return of the final report
Document(r) ==
  /\ loop = r
  /\ run[r].pc = "document"
  /\ \E fail \in FailPoints :
       LET res == GenerateDocumentation(fs, SourceFor(run[r], "Document"),
                                        run[r].files[1].testbench, fail)
       IN StageOutcome(r, "Document", "result",
                       IF res.ok
                       THEN [res EXCEPT !.value = <<FinalReport(run[r], res.value[1])>>]
                       ELSE res)
  /\ UNCHANGED <<call, verilog_content, testbench_content, verification, outcomes>>

NoCall == [tool |-> None, outcome |-> None, temps |-> {}]

Init ==
  /\ fs = <<>>
  /\ loop = 0
  /\ run = [r \in Runs |-> NewRun]
  /\ call = NoCall
  /\ verilog_content = <<>>
  /\ testbench_content = <<>>
  /\ verification = <<>>
  /\ optimization = <<>>
  /\ optimized = <<>>
  /\ module_info = <<>>
  /\ response = <<>>
  /\ analyzer = <<>>

Next ==
  \E r \in Runs :
    \/ Start(r)
    \/ AnalyzeDone(r)
    \/ GenerateVerilogDone(r)
    \/ GenerateTestbenchDone(r)
    \/ ValidateDone(r)
    \/ Optimize(r)
    \/ Verify(r)
    \/ Document(r)

Spec == Init /\ [][Next]_vars

-----------------------------------------------------------------------------
(* The server's tool handlers optimize_design, verify_design and             *)
(* generate_documentation. A handler has no await: it runs from its first    *)
(* statement to its return or raise in one step. fail is where the           *)
(* environment makes it raise: writing a temporary file, or inside the       *)
(* agent's stage.                                                            *)

MaxToolTexts == 2
ToolTexts == 1..MaxToolTexts

TempVerilog == Path(<<"temp">>, ".v")
TempTestbench == Path(<<"temp_tb">>, ".sv")

ToolFailPoints == {"write_temp_verilog", "write_temp_tb"} \cup FailPoints

Finished(tool, f, outcome, temps) ==
  [tool |-> tool, fs |-> f, outcome |-> outcome, temps |-> temps]

\* temp_verilog.unlink(); temp_tb.unlink()
RECURSIVE UnlinkAll(_, _)
UnlinkAll(f, paths) ==
  IF paths = <<>> THEN f ELSE UnlinkAll(Unlink(f, Head(paths)), Tail(paths))

\* after the stage: the clean-up lines run only when the stage has returned
CleanUp(tool, res, temps) ==
  LET written == {temps[i] : i \in 1..Len(temps)}
  IN IF res.ok
     THEN Finished(tool, UnlinkAll(res.fs, temps), "returned", written)
     ELSE Finished(tool, res.fs, "raised", written)

OptimizeTool(f, verilog_code, fail) ==
  IF fail = "write_temp_verilog" THEN Finished("optimize_design", f, "raised", {})
  ELSE LET temp_file == TempVerilog
           saved == WriteText(f, temp_file, verilog_code)
       IN CleanUp("optimize_design", OptimizeDesign(saved, temp_file, fail), <<temp_file>>)

VerifyTool(f, verilog_code, testbench, fail) ==
  IF fail = "write_temp_verilog" THEN Finished("verify_design", f, "raised", {})
  ELSE LET temp_verilog == TempVerilog
           temp_tb == TempTestbench
           saved1 == WriteText(f, temp_verilog, verilog_code)
           saved2 == WriteText(saved1, temp_tb, testbench)
       IN IF fail = "write_temp_tb"
          THEN Finished("verify_design", saved1, "raised", {temp_verilog})
          ELSE CleanUp("verify_design", VerifyDesign(saved2, temp_verilog, temp_tb, fail),
                       <<temp_verilog, temp_tb>>)

DocumentTool(f, verilog_code, testbench, fail) ==
  IF fail = "write_temp_verilog" THEN Finished("generate_documentation", f, "raised", {})
  ELSE LET temp_verilog == TempVerilog
           temp_tb == TempTestbench
           saved1 == WriteText(f, temp_verilog, verilog_code)
           saved2 == WriteText(saved1, temp_tb, testbench)
       IN IF fail = "write_temp_tb"
          THEN Finished("generate_documentation", saved1, "raised", {temp_verilog})
          ELSE CleanUp("generate_documentation",
                       GenerateDocumentation(saved2, temp_verilog, temp_tb, fail),
                       <<temp_verilog, temp_tb>>)

HandlerDone(done) ==
  /\ fs' = done.fs
  /\ call' = [tool |-> done.tool, outcome |-> done.outcome, temps |-> done.temps]
  /\ UNCHANGED <<loop, run, verilog_content, testbench_content, verification, outcomes>>

OptimizeRequest ==
  \E code \in ToolTexts, fail \in FailPoints \cup {"write_temp_verilog"} :
    HandlerDone(OptimizeTool(fs, Text("verilog", code), fail))

VerifyRequest ==
  \E code \in ToolTexts, tb \in ToolTexts, fail \in ToolFailPoints :
    HandlerDone(VerifyTool(fs, Text("verilog", code), Text("testbench", tb), fail))

DocumentRequest ==
  \E code \in ToolTexts, tb \in ToolTexts, fail \in ToolFailPoints :
    HandlerDone(DocumentTool(fs, Text("verilog", code), Text("testbench", tb), fail))

NextTools == OptimizeRequest \/ VerifyRequest \/ DocumentRequest

SpecTools == Init /\ [][NextTools]_vars

-----------------------------------------------------------------------------
(* Claims about process_design (Spec) and the tool handlers (SpecTools)      *)

InFlight(r) == run[r].pc \notin {"idle", "returned", "raised"}

IsPrefix(s, t) == Len(s) <= Len(t) /\ \A i \in 1..Len(s) : s[i] = t[i]

\* C1: when a stage of process_design fails, the call ends at that stage: it
\* has raised to its caller, the failed stage is the last one invoked, and no
\* report, partial or full, is returned.
C1_FailureAbortsRun ==
  \A r \in Runs :
    run[r].failed # None =>
      /\ run[r].pc = "raised"
      /\ run[r].result = <<>>
      /\ run[r].stages # <<>>
      /\ run[r].stages[Len(run[r].stages)] = run[r].failed
      /\ run[r].failed \notin {run[r].completed[i] : i \in 1..Len(run[r].completed)}

\* C1 witness: a call that failed in Verify, after two stages had completed
C1_Witness ==
  \E r \in Runs :
    /\ run[r].failed = "Verify"
    /\ run[r].pc = "raised"
    /\ run[r].completed = <<"Generate", "Optimize">>

\* C2: the stages of a call are invoked in the order Generate, Optimize,
\* Verify, Document, none skipped and none twice, and a stage is invoked only
\* when every stage before it has completed.
C2_StagesStrictlyLinear ==
  \A r \in Runs :
    /\ IsPrefix(run[r].stages, StageOrder)
    /\ IsPrefix(run[r].completed, run[r].stages)
    /\ Len(run[r].stages) <= Len(run[r].completed) + 1
    /\ (run[r].pc = "returned" => run[r].completed = StageOrder)

\* C2 witness: a call that returned after all four stages
C2_Witness ==
  \E r \in Runs : run[r].pc = "returned" /\ run[r].stages = StageOrder

\* C3: a call whose Generate stage failed has written no artifact file.
C3_GenerateFailureWritesNothing ==
  \A r \in Runs : run[r].failed = "Generate" => run[r].wrote = {}

\* C4: once a tool handler has finished, returned or raised, no temporary
\* file it wrote exists.
C4_TempFilesRemoved ==
  \A p \in call.temps : ~Exists(fs, p)

\* C5: two invocations in flight at the same time never use the same file
\* path for the files they write.
C5_DistinctScratchPaths ==
  \A r1 \in Runs, r2 \in Runs :
    (r1 # r2 /\ InFlight(r1) /\ InFlight(r2)) => run[r1].wrote \cap run[r2].wrote = {}

\* C6: every text a call's Optimize, Verify and Document stages read was
\* produced by that call's own Generate stage.
C6_RunReadsOwnText ==
  \A r \in Runs : \A x \in run[r].read : x[3].by = r

-----------------------------------------------------------------------------
(* Texts for the analyzers' rules. A text is one line of lexemes separated   *)
(* by blanks. The rules are regular-expression searches; each is modelled by *)
(* what it matches on such a line.                                           *)

\* lexemes made of word characters only (\w+)
WordLexemes ==
  {"property", "endproperty", "assume", "covergroup", "coverpoint", "assert", "if",
   "else", "case", "w"}

\* a conditional assignment written without blanks
CompactIf == "if(en)q<=d;"

\* what the optimizer's rules look for, each written as one lexeme: a clocked
\* block, a chain of conditionals, a register and a wire with a range, a clock
\* enable, an enable assignment, an asynchronous reset, a nested conditional
\* assignment
AlwaysClk == "always @(posedge clk)"
IfElseChain == "if(a)x=1 else if(b)x=2 else x=3"
RegVector == "reg [3:0] q"
WireVector == "wire [3:0] s"
ClockEnable == "clk_en"
EnableAssign == "en =1"
AsyncReset == "negedge rst"
NestedAssign == "assign y=a?b:c?d:e"

OptimizerLexemes ==
  {AlwaysClk, IfElseChain, RegVector, WireVector, ClockEnable, EnableAssign, AsyncReset,
   NestedAssign, "w"}

\* the lexeme begins with a word character
StartsWithWord(x) == x \in WordLexemes \cup OptimizerLexemes \cup {CompactIf, "default:"}

\* the number of ';' in a lexeme
Semicolons(x) == IF x \in {";", CompactIf} THEN 1 ELSE 0

\* the number of matches of r'if|case' in a lexeme
BranchKeywords(x) ==
  IF x \in {"if", "case", CompactIf} THEN 1 ELSE IF x = IfElseChain THEN 2 ELSE 0

\* the lexeme holds 'assert', 'if' or 'else' (before any ';' it holds)
OpensStatement(x) == x \in {"assert", "if", "else", CompactIf}

\* len(re.findall(r';', text)) from lexeme i on
RECURSIVE FindAllSemicolons(_, _)
FindAllSemicolons(text, i) ==
  IF i > Len(text) THEN 0 ELSE Semicolons(text[i]) + FindAllSemicolons(text, i + 1)

\* len(re.findall(r'if|case', text)) from lexeme i on
RECURSIVE FindAllBranches(_, _)
FindAllBranches(text, i) ==
  IF i > Len(text) THEN 0 ELSE BranchKeywords(text[i]) + FindAllBranches(text, i + 1)

\* the lexeme ends in the keyword: the patterns have no word boundary, so
\* r'property\s+\w+' also matches at the end of 'endproperty'
EndsWith(x, keyword) == x = keyword \/ (keyword = "property" /\ x = "endproperty")

\* len(re.findall(keyword + r'\s+\w+', text)) from lexeme i on: the keyword,
\* blanks, then a lexeme beginning with a word character; a match consumes
\* the word it ends in, so the search resumes after that lexeme
RECURSIVE FindAllDeclared(_, _, _)
FindAllDeclared(keyword, text, i) ==
  IF i >= Len(text) THEN 0
  ELSE IF EndsWith(text[i], keyword) /\ StartsWithWord(text[i + 1])
       THEN 1 + FindAllDeclared(keyword, text, i + 2)
       ELSE FindAllDeclared(keyword, text, i + 1)

\* re.search(keyword + r'\s+\w+', text)
SearchDeclared(keyword, text) ==
  \E i \in 1..(Len(text) - 1) : EndsWith(text[i], keyword) /\ StartsWithWord(text[i + 1])

\* len(re.findall(r'assert.*?;|if.*?;|else.*?;', text)) from lexeme i on:
\* open says a keyword has been met and its ';' has not
RECURSIVE FindAllCovered(_, _, _)
FindAllCovered(text, i, open) ==
  IF i > Len(text) THEN 0
  ELSE IF Semicolons(text[i]) > 0 /\ (open \/ OpensStatement(text[i]))
       THEN 1 + FindAllCovered(text, i + 1, FALSE)
       ELSE FindAllCovered(text, i + 1, open \/ OpensStatement(text[i]))

\* re.search(r'##\d+|@\(posedge', text)
SearchTemporal(text) == \E i \in 1..Len(text) : text[i] \in {"##1", "@(posedge"}

\* re.search(r'default\s*:', text)
SearchDefault(text) == \E i \in 1..Len(text) : text[i] = "default:"

-----------------------------------------------------------------------------
(* Python floats, kept exact as fractions num/den with den > 0               *)

Float(n) == [num |-> n, den |-> 1]
Divide(a, n) == [num |-> a.num, den |-> a.den * n]
Times(a, n) == [num |-> a.num * n, den |-> a.den]
Plus(a, b) == [num |-> a.num * b.den + b.num * a.den, den |-> a.den * b.den]
Less(a, b) == a.num * b.den < b.num * a.den
AtLeast(a, b) == ~Less(a, b)
Same(a, b) == a.num * b.den = b.num * a.den
Smaller(a, b) == IF Less(b, a) THEN b ELSE a

-----------------------------------------------------------------------------
(* DesignVerifier: the four rule groups and the report                       *)

VerificationResult(type, passed, coverage, issues, suggestions) ==
  [verification_type |-> type, passed |-> passed, coverage |-> coverage,
   issues |-> issues, suggestions |-> suggestions]

\* issues.append(issue); suggestions.append(suggestion) when the check fires
Finding(found, fires, issue, suggestion) ==
  IF fires
  THEN [issues |-> Append(found.issues, issue),
        suggestions |-> Append(found.suggestions, suggestion)]
  ELSE found

NoFindings == [issues |-> <<>>, suggestions |-> <<>>]

CoverageThreshold == 80
FullCoverage == 100
PerProperty == 20
PerCovergroup == 25
PerAssertion == 10

\* a verify_formal_properties whose first check looks for the wrong keyword
verify_formal_properties_miskeyed(code) ==
  LET declared == SearchDeclared("property", code)
      property_count == FindAllDeclared("property", code, 1)
      coverage == IF ~declared THEN Float(0)
                  ELSE Smaller(Float(FullCoverage), Float(property_count * PerProperty))
      f1 == Finding(NoFindings, ~SearchDeclared("assume", code),
                    "No assumptions defined", "Add assumptions about input behavior")
  IN VerificationResult("formal", Len(f1.issues) = 0, coverage, f1.issues, f1.suggestions)

\* a verify_formal_properties that looks for assumptions only when it found
\* no property
verify_formal_properties_elif(code) ==
  LET declared == SearchDeclared("property", code)
      property_count == FindAllDeclared("property", code, 1)
      coverage == IF ~declared THEN Float(0)
                  ELSE Smaller(Float(FullCoverage), Float(property_count * PerProperty))
      f1 == Finding(NoFindings, ~declared, "No formal properties defined",
                    "Add SVA properties for critical behavior")
      f2 == Finding(f1, ~declared /\ ~SearchDeclared("assume", code),
                    "No assumptions defined", "Add assumptions about input behavior")
  IN VerificationResult("formal", Len(f2.issues) = 0, coverage, f2.issues, f2.suggestions)

verify_formal_properties(code) ==
  LET declared == SearchDeclared("property", code)
      property_count == FindAllDeclared("property", code, 1)
      coverage == IF ~declared THEN Float(0)
                  ELSE Smaller(Float(FullCoverage), Float(property_count * PerProperty))
      f1 == Finding(NoFindings, ~declared, "No formal properties defined",
                    "Add SVA properties for critical behavior")
      f2 == Finding(f1, ~SearchDeclared("assume", code), "No assumptions defined",
                    "Add assumptions about input behavior")
  IN VerificationResult("formal", Len(f2.issues) = 0, coverage, f2.issues, f2.suggestions)

\* a verify_functional_coverage that misses the covergroups only when it
\* finds no coverage point either
verify_functional_coverage_by_points(tb) ==
  LET declared == SearchDeclared("covergroup", tb)
      covergroup_count == FindAllDeclared("covergroup", tb, 1)
      coverage == IF ~declared THEN Float(0)
                  ELSE Smaller(Float(FullCoverage), Float(covergroup_count * PerCovergroup))
      f1 == Finding(NoFindings, ~declared /\ ~SearchDeclared("coverpoint", tb),
                    "No coverage groups defined", "Add covergroups for functional coverage")
      f2 == Finding(f1, ~SearchDeclared("coverpoint", tb), "No coverage points defined",
                    "Add coverage points for state space exploration")
  IN VerificationResult("functional", Len(f2.issues) = 0, coverage, f2.issues,
                        f2.suggestions)

verify_functional_coverage(tb) ==
  LET declared == SearchDeclared("covergroup", tb)
      covergroup_count == FindAllDeclared("covergroup", tb, 1)
      coverage == IF ~declared THEN Float(0)
                  ELSE Smaller(Float(FullCoverage), Float(covergroup_count * PerCovergroup))
      f1 == Finding(NoFindings, ~declared, "No coverage groups defined",
                    "Add covergroups for functional coverage")
      f2 == Finding(f1, ~SearchDeclared("coverpoint", tb), "No coverage points defined",
                    "Add coverage points for state space exploration")
  IN VerificationResult("functional", Len(f2.issues) = 0, coverage, f2.issues,
                        f2.suggestions)

\* a verify_assertions that passes as soon as an assertion is declared
verify_assertions_by_count(tb) ==
  LET declared == SearchDeclared("assert", tb)
      assertion_count == FindAllDeclared("assert", tb, 1)
      coverage == IF ~declared THEN Float(0)
                  ELSE Smaller(Float(FullCoverage), Float(assertion_count * PerAssertion))
      f1 == Finding(NoFindings, ~declared, "No assertions defined",
                    "Add assertions for design invariants")
      f2 == Finding(f1, ~SearchTemporal(tb), "No temporal assertions defined",
                    "Add temporal assertions for sequential behavior")
  IN VerificationResult("assertion", declared, coverage, f2.issues, f2.suggestions)

verify_assertions(tb) ==
  LET declared == SearchDeclared("assert", tb)
      assertion_count == FindAllDeclared("assert", tb, 1)
      coverage == IF ~declared THEN Float(0)
                  ELSE Smaller(Float(FullCoverage), Float(assertion_count * PerAssertion))
      f1 == Finding(NoFindings, ~declared, "No assertions defined",
                    "Add assertions for design invariants")
      f2 == Finding(f1, ~SearchTemporal(tb), "No temporal assertions defined",
                    "Add temporal assertions for sequential behavior")
  IN VerificationResult("assertion", Len(f2.issues) = 0, coverage, f2.issues,
                        f2.suggestions)

\* a verify_code_coverage that passes, like the other three, when it has no issue
verify_code_coverage_by_issues(code, tb) ==
  LET statements == FindAllSemicolons(code, 1)
      covered_statements == FindAllCovered(tb, 1, FALSE)
      coverage == IF statements > 0
                  THEN Times(Divide(Float(covered_statements), statements), 100)
                  ELSE Float(0)
      f1 == Finding(NoFindings, Less(coverage, Float(CoverageThreshold)),
                    "Low code coverage", "Add test cases to improve code coverage")
      branches == FindAllBranches(code, 1)
      f2 == Finding(f1, branches > 0 /\ ~SearchDefault(code),
                    "Missing default case in case statements",
                    "Add default cases for complete branch coverage")
  IN VerificationResult("coverage", Len(f2.issues) = 0, coverage, f2.issues, f2.suggestions)

\* a verify_code_coverage that looks for the default case only when the
\* coverage is low
verify_code_coverage_default_when_low(code, tb) ==
  LET statements == FindAllSemicolons(code, 1)
      covered_statements == FindAllCovered(tb, 1, FALSE)
      coverage == IF statements > 0
                  THEN Times(Divide(Float(covered_statements), statements), 100)
                  ELSE Float(0)
      low == Less(coverage, Float(CoverageThreshold))
      f1 == Finding(NoFindings, low, "Low code coverage",
                    "Add test cases to improve code coverage")
      branches == FindAllBranches(code, 1)
      f2 == Finding(f1, low /\ branches > 0 /\ ~SearchDefault(code),
                    "Missing default case in case statements",
                    "Add default cases for complete branch coverage")
  IN VerificationResult("coverage", AtLeast(coverage, Float(CoverageThreshold)), coverage,
                        f2.issues, f2.suggestions)

\* a verify_code_coverage that divides whatever the number of statements; a
\* division by zero is the fraction with denominator 0
verify_code_coverage_unguarded(code, tb) ==
  LET statements == FindAllSemicolons(code, 1)
      covered_statements == FindAllCovered(tb, 1, FALSE)
      coverage == Times(Divide(Float(covered_statements), statements), 100)
      f1 == Finding(NoFindings, Less(coverage, Float(CoverageThreshold)),
                    "Low code coverage", "Add test cases to improve code coverage")
      branches == FindAllBranches(code, 1)
      f2 == Finding(f1, branches > 0 /\ ~SearchDefault(code),
                    "Missing default case in case statements",
                    "Add default cases for complete branch coverage")
  IN VerificationResult("coverage", AtLeast(coverage, Float(CoverageThreshold)), coverage,
                        f2.issues, f2.suggestions)

\* the issue text carries the value formatted to one decimal; the model keeps
\* the text before the colon
verify_code_coverage(code, tb) ==
  LET statements == FindAllSemicolons(code, 1)
      covered_statements == FindAllCovered(tb, 1, FALSE)
      coverage == IF statements > 0
                  THEN Times(Divide(Float(covered_statements), statements), 100)
                  ELSE Float(0)
      f1 == Finding(NoFindings, Less(coverage, Float(CoverageThreshold)),
                    "Low code coverage", "Add test cases to improve code coverage")
      branches == FindAllBranches(code, 1)
      f2 == Finding(f1, branches > 0 /\ ~SearchDefault(code),
                    "Missing default case in case statements",
                    "Add default cases for complete branch coverage")
  IN VerificationResult("coverage", AtLeast(coverage, Float(CoverageThreshold)), coverage,
                        f2.issues, f2.suggestions)

VerificationTypes == <<"formal", "functional", "assertion", "coverage">>

RECURSIVE SumLen(_, _, _)
SumLen(results, field, i) ==
  IF i > Len(VerificationTypes) THEN 0
  ELSE Len(results[VerificationTypes[i]][field]) + SumLen(results, field, i + 1)

RECURSIVE SumCoverage(_, _)
SumCoverage(results, i) ==
  IF i > Len(VerificationTypes) THEN Float(0)
  ELSE Plus(results[VerificationTypes[i]].coverage, SumCoverage(results, i + 1))

\* a report whose all_passed is true as soon as one dimension passed
generate_verification_report_any(results) ==
  [summary |->
     [total_issues |-> SumLen(results, "issues", 1),
      total_suggestions |-> SumLen(results, "suggestions", 1),
      average_coverage |-> Divide(SumCoverage(results, 1), Len(VerificationTypes)),
      all_passed |-> \E t \in DOMAIN results : results[t].passed],
   verifications |->
     [t \in DOMAIN results |->
        [passed |-> results[t].passed, coverage |-> results[t].coverage,
         issues |-> results[t].issues, suggestions |-> results[t].suggestions]]]

generate_verification_report(results) ==
  [summary |->
     [total_issues |-> SumLen(results, "issues", 1),
      total_suggestions |-> SumLen(results, "suggestions", 1),
      average_coverage |-> Divide(SumCoverage(results, 1), Len(VerificationTypes)),
      all_passed |-> \A t \in DOMAIN results : results[t].passed],
   verifications |->
     [t \in DOMAIN results |->
        [passed |-> results[t].passed, coverage |-> results[t].coverage,
         issues |-> results[t].issues, suggestions |-> results[t].suggestions]]]

verify_all(code, tb) ==
  generate_verification_report(
    [formal |-> verify_formal_properties(code),
     functional |-> verify_functional_coverage(tb),
     assertion |-> verify_assertions(tb),
     coverage |-> verify_code_coverage(code, tb)])

-----------------------------------------------------------------------------
(* The verifier on bounded texts                                             *)

MaxVerilogLen == 2
MaxTestbenchLen == 3

VerilogLexemes == {"property", "assume", "w", ";", CompactIf, "default:"}
TestbenchLexemes ==
  {"covergroup", "coverpoint", "assert", "w", "(q)", ";", CompactIf, "@(posedge"}

TextsOver(lexemes, n) == UNION {[1..k -> lexemes] : k \in 0..n}

\* DesignVerifier(verilog_file, testbench_file) has read the two texts
InitVerify ==
  /\ fs = <<>>
  /\ loop = 0
  /\ run = [r \in Runs |-> NewRun]
  /\ call = NoCall
  /\ verilog_content \in TextsOver(VerilogLexemes, MaxVerilogLen)
  /\ testbench_content \in TextsOver(TestbenchLexemes, MaxTestbenchLen)
  /\ verification = <<>>
  /\ optimization = <<>>
  /\ optimized = <<>>
  /\ module_info = <<>>
  /\ response = <<>>
  /\ analyzer = <<>>

VerifyAll ==
  /\ verification = <<>>
  /\ verification' = <<verify_all(verilog_content, testbench_content)>>
  /\ UNCHANGED <<fs, loop, run, call, verilog_content, testbench_content, outcomes>>

NextVerify == VerifyAll

SpecVerify == InitVerify /\ [][NextVerify]_vars

\* The verifier on longer sources, against an empty testbench and against one
\* that has everything the rules look for: a source is a sequence of blocks,
\* each a plain word, a ';', the word 'assume', a property declaration closed
\* by 'endproperty', or a declaration whose body and end are left out; six
\* blocks are enough for the coverage to saturate
MaxBlocks == 6

PropertyBlocks ==
  {<<"w">>, <<";">>, <<"assume">>, <<"property", "w">>,
   <<"property", "w", "endproperty">>}

FullTestbench ==
  <<"covergroup", "w", "coverpoint", "w", "assert", "w", "@(posedge", CompactIf>>

RECURSIVE Concat(_, _)
Concat(blocks, i) ==
  IF i > Len(blocks) THEN <<>> ELSE blocks[i] \o Concat(blocks, i + 1)

InitFormal ==
  /\ fs = <<>>
  /\ loop = 0
  /\ run = [r \in Runs |-> NewRun]
  /\ call = NoCall
  /\ verilog_content \in {Concat(blocks, 1) : blocks \in TextsOver(PropertyBlocks, MaxBlocks)}
  /\ testbench_content \in {<<>>, FullTestbench}
  /\ verification = <<>>
  /\ optimization = <<>>
  /\ optimized = <<>>
  /\ module_info = <<>>
  /\ response = <<>>
  /\ analyzer = <<>>

SpecFormal == InitFormal /\ [][NextVerify]_vars

-----------------------------------------------------------------------------
(* DesignOptimizer: the four analyses, the report and apply_optimizations    *)

\* re.search and len(re.findall) of a rule that matches one lexeme
Search(lexeme, text) == \E i \in 1..Len(text) : text[i] = lexeme
FindAll(lexeme, text) == Cardinality({i \in 1..Len(text) : text[i] = lexeme})

\* re.search(r'wire\s+\[.*?\].*?wire\s+\[.*?\]', text)
SearchTwoWires(text) == FindAll(WireVector, text) >= 2

OptimizationResult(type, original_metrics, optimized_metrics, found) ==
  [optimization_type |-> type, original_metrics |-> original_metrics,
   optimized_metrics |-> optimized_metrics, improvements |-> found.improvements,
   suggested_changes |-> found.suggested_changes]

\* a rule that records the improvement without its suggestion
ChangeUnpaired(found, fires, improvement, suggestion) ==
  IF fires
  THEN [improvements |-> Append(found.improvements, improvement),
        suggested_changes |-> found.suggested_changes]
  ELSE found


\* improvements.append(improvement); suggestions.append(suggestion)
Change(found, fires, improvement, suggestion) ==
  IF fires
  THEN [improvements |-> Append(found.improvements, improvement),
        suggested_changes |-> Append(found.suggested_changes, suggestion)]
  ELSE found

NoChanges == [improvements |-> <<>>, suggested_changes |-> <<>>]

Max(a, b) == IF a > b THEN a ELSE b

\* the improvement text carries the depth; the model keeps the text before
\* the colon, the depth is in original_metrics
analyze_performance(code) ==
  LET f1 == Change(NoChanges, Search(AlwaysClk, code) /\ Search(IfElseChain, code),
                   "Long combinational paths detected",
                   "Consider breaking down complex conditional logic")
      pipeline_stages == FindAll(AlwaysClk, code)
      f2 == Change(f1, pipeline_stages > 0, "Current pipeline depth",
                   "Consider pipeline balancing for optimal performance")
  IN OptimizationResult("performance", [pipeline_depth |-> pipeline_stages],
                        [suggested_pipeline_depth |-> pipeline_stages + 1], f2)

\* an analyze_area that suggests one register fewer, whatever the count
analyze_area_one_fewer(code) ==
  LET reg_count == FindAll(RegVector, code)
      f1 == Change(NoChanges, reg_count > 0, "Current register count",
                   "Consider resource sharing for registers")
      f2 == Change(f1, SearchTwoWires(code), "Potential redundant wire declarations",
                   "Consider combining wire declarations")
  IN OptimizationResult("area", [register_count |-> reg_count],
                        [suggested_register_count |-> reg_count - 1], f2)

analyze_area(code) ==
  LET reg_count == FindAll(RegVector, code)
      f1 == Change(NoChanges, reg_count > 0, "Current register count",
                   "Consider resource sharing for registers")
      f2 == Change(f1, SearchTwoWires(code), "Potential redundant wire declarations",
                   "Consider combining wire declarations")
  IN OptimizationResult("area", [register_count |-> reg_count],
                        [suggested_register_count |-> Max(1, reg_count - 1)], f2)

\* an analyze_power that looks at the registers only when the clock gating
\* check found nothing
analyze_power_elif(code) ==
  LET ungated == Search(AlwaysClk, code) /\ ~Search(ClockEnable, code)
      f1 == Change(NoChanges, ungated, "No clock gating detected",
                   "Consider adding clock gating for power reduction")
      f2 == Change(f1, ~ungated /\ Search(RegVector, code) /\ ~Search(EnableAssign, code),
                   "Registers without enable signals",
                   "Add enable signals to reduce switching activity")
  IN OptimizationResult("power", [has_clock_gating |-> FALSE],
                        [suggested_clock_gating |-> TRUE], f2)

analyze_power(code) ==
  LET f1 == Change(NoChanges, Search(AlwaysClk, code) /\ ~Search(ClockEnable, code),
                   "No clock gating detected",
                   "Consider adding clock gating for power reduction")
      f2 == Change(f1, Search(RegVector, code) /\ ~Search(EnableAssign, code),
                   "Registers without enable signals",
                   "Add enable signals to reduce switching activity")
  IN OptimizationResult("power", [has_clock_gating |-> FALSE],
                        [suggested_clock_gating |-> TRUE], f2)

\* an analyze_timing whose metric reports the asynchronous reset it found
analyze_timing_detecting(code) ==
  LET f1 == Change(NoChanges, Search(AlwaysClk, code) /\ ~Search(AsyncReset, code),
                   "Synchronous reset detected",
                   "Consider using asynchronous reset for better timing")
      f2 == Change(f1, Search(NestedAssign, code), "Deep combinational paths detected",
                   "Consider breaking down complex assignments")
  IN OptimizationResult("timing", [has_async_reset |-> Search(AsyncReset, code)],
                        [suggested_async_reset |-> TRUE], f2)


analyze_timing(code) ==
  LET f1 == Change(NoChanges, Search(AlwaysClk, code) /\ ~Search(AsyncReset, code),
                   "Synchronous reset detected",
                   "Consider using asynchronous reset for better timing")
      f2 == Change(f1, Search(NestedAssign, code), "Deep combinational paths detected",
                   "Consider breaking down complex assignments")
  IN OptimizationResult("timing", [has_async_reset |-> FALSE],
                        [suggested_async_reset |-> TRUE], f2)

OptimizationTypes == <<"performance", "area", "power", "timing">>

RECURSIVE SumChanges(_, _, _)
SumChanges(results, field, i) ==
  IF i > Len(OptimizationTypes) THEN 0
  ELSE Len(results[OptimizationTypes[i]][field]) + SumChanges(results, field, i + 1)

generate_optimization_report(results) ==
  [summary |->
     [total_improvements |-> SumChanges(results, "improvements", 1),
      total_suggestions |-> SumChanges(results, "suggested_changes", 1)],
   optimizations |->
     [t \in DOMAIN results |->
        [original_metrics |-> results[t].original_metrics,
         optimized_metrics |-> results[t].optimized_metrics,
         improvements |-> results[t].improvements,
         suggested_changes |-> results[t].suggested_changes]]]

optimize_all(code) ==
  generate_optimization_report(
    [performance |-> analyze_performance(code), area |-> analyze_area(code),
     power |-> analyze_power(code), timing |-> analyze_timing(code)])

\* trigger in change.lower(), for the suggestion texts the analyses produce
Mentions(change, trigger) ==
  \/ trigger = "pipeline balancing"
       /\ change = "Consider pipeline balancing for optimal performance"
  \/ trigger = "resource sharing" /\ change = "Consider resource sharing for registers"
  \/ trigger = "clock gating"
       /\ change = "Consider adding clock gating for power reduction"

\* a hook that does add a register
add_pipeline_registers_inserting(code) == Append(code, RegVector)

\* the three hooks return the code they are given
add_pipeline_registers(code) == code
optimize_resource_usage(code) == code
add_clock_gating(code) == code

Hook(trigger, code) ==
  CASE trigger = "pipeline balancing" -> add_pipeline_registers(code)
    [] trigger = "resource sharing" -> optimize_resource_usage(code)
    [] trigger = "clock gating" -> add_clock_gating(code)

\* for change in changes: if trigger in change.lower(): code = hook(code)
RECURSIVE ApplyChanges(_, _, _, _)
ApplyChanges(changes, i, trigger, code) ==
  IF i > Len(changes) THEN code
  ELSE ApplyChanges(changes, i + 1, trigger,
                    IF Mentions(changes[i], trigger) THEN Hook(trigger, code) ELSE code)

ApplyFor(report, type, trigger, code) ==
  IF type \in DOMAIN report.optimizations
  THEN ApplyChanges(report.optimizations[type].suggested_changes, 1, trigger, code)
  ELSE code

apply_optimizations(report, code) ==
  ApplyFor(report, "power", "clock gating",
           ApplyFor(report, "area", "resource sharing",
                    ApplyFor(report, "performance", "pipeline balancing", code)))

\* The optimizer, and the verifier, on bounded sources, with an empty testbench
\* and with one that has everything the rules look for
MaxOptimizerLen == 3

InitOptimize ==
  /\ fs = <<>>
  /\ loop = 0
  /\ run = [r \in Runs |-> NewRun]
  /\ call = NoCall
  /\ verilog_content \in TextsOver(OptimizerLexemes, MaxOptimizerLen)
  /\ testbench_content \in {<<>>, FullTestbench}
  /\ verification = <<>>
  /\ optimization = <<>>
  /\ optimized = <<>>
  /\ module_info = <<>>
  /\ response = <<>>
  /\ analyzer = <<>>

OptimizeAllCalled ==
  /\ optimization = <<>>
  /\ optimization' = <<optimize_all(verilog_content)>>
  /\ UNCHANGED <<fs, loop, run, call, verilog_content, testbench_content, verification,
                 optimized, module_info, response, analyzer>>

ApplyOptimizationsCalled ==
  /\ optimization # <<>>
  /\ optimized = <<>>
  /\ optimized' = <<apply_optimizations(optimization[1], verilog_content)>>
  /\ UNCHANGED <<fs, loop, run, call, verilog_content, testbench_content, verification,
                 optimization, module_info, response, analyzer>>

NextOptimize == OptimizeAllCalled \/ ApplyOptimizationsCalled \/ VerifyAll

SpecOptimize == InitOptimize /\ [][NextOptimize]_vars

-----------------------------------------------------------------------------
(* DocGenerator.extract_module_info. The source is a line of declarations,   *)
(* each written as one lexeme; the testbench a line of test-case markers and *)
(* stimulus.                                                                 *)

DescComment == "/** d */"
ParamDecl == "parameter W = 8;"
PortIn == "input [3:0] a"
PortOutReg == "output reg q"
SignalWire == "wire [3:0] s"

DocLexemes == {"module", "counter", DescComment, ParamDecl, PortIn, PortOutReg, SignalWire}

TestCaseOpen == "// Test case 1\n"
TestCaseEnd == "// End test case"

DocTestLexemes == {TestCaseOpen, "x = 1;", TestCaseEnd}

\* the first \w+ of a lexeme that begins with a word character
FirstWord(x) ==
  CASE x = ParamDecl -> "parameter"
    [] x = PortIn -> "input"
    [] x = PortOutReg -> "output"
    [] x = SignalWire -> "wire"
    [] OTHER -> x

\* re.search(r'module\s+(\w+)', text): group 1 of the leftmost match
ModuleMatch(text) ==
  LET at == {i \in 1..(Len(text) - 1) : text[i] = "module" /\ text[i + 1] # DescComment}
  IN IF at = {} THEN <<>>
     ELSE <<FirstWord(text[CHOOSE i \in at : \A j \in at : i <= j])>>

\* re.search(r'/\*\*(.*?)\*/', text, re.DOTALL): group 1, stripped
DescMatch(text) == IF \E i \in 1..Len(text) : text[i] = DescComment THEN <<"d">> ELSE <<>>

\* what one lexeme adds to parameters, ports and signals
ParameterOf(x) ==
  IF x = ParamDecl THEN <<[name |-> "W", value |-> "8", description |-> "No description"]>>
  ELSE <<>>

PortOf(x) ==
  CASE x = PortIn -> <<[direction |-> "input", width |-> "3:0", name |-> "a",
                        description |-> "No description"]>>
    [] x = PortOutReg -> <<[direction |-> "output", width |-> "1", name |-> "q",
                            description |-> "No description"]>>
    [] OTHER -> <<>>

SignalOf(x) ==
  CASE x = SignalWire -> <<[type |-> "wire", width |-> "3:0", name |-> "s",
                            description |-> "No description"]>>
    [] x = PortOutReg -> <<[type |-> "reg", width |-> "1", name |-> "q",
                            description |-> "No description"]>>
    [] OTHER -> <<>>

\* for match in re.finditer(...): list.append(...), in the order of the text
RECURSIVE FindIter(_, _, _)
FindIter(kind, text, i) ==
  IF i > Len(text) THEN <<>>
  ELSE (CASE kind = "parameters" -> ParameterOf(text[i])
          [] kind = "ports" -> PortOf(text[i])
          [] kind = "signals" -> SignalOf(text[i])) \o FindIter(kind, text, i + 1)

\* re.finditer(r'// Test case.*?\n(.*?)// End test case', tb, re.DOTALL):
\* a match runs from a test-case line to the nearest end marker after it;
\* body holds the lexemes met since the opening line, when inside
RECURSIVE FindExamples(_, _, _, _)
FindExamples(tb, i, inside, body) ==
  IF i > Len(tb) THEN <<>>
  ELSE IF ~inside
       THEN FindExamples(tb, i + 1, tb[i] = TestCaseOpen, <<>>)
       ELSE IF tb[i] = TestCaseEnd
            THEN <<body>> \o FindExamples(tb, i + 1, FALSE, <<>>)
            ELSE FindExamples(tb, i + 1, TRUE, Append(body, tb[i]))

ModuleDoc(name, description, parameters, ports, signals, examples) ==
  [name |-> name, description |-> description, parameters |-> parameters,
   ports |-> ports, signals |-> signals, timing_diagrams |-> <<"wavedrom">>,
   examples |-> examples]

\* an extraction that uses up the testbench text it has read
extract_module_info_consuming(self) ==
  LET code == self.verilog_content
      module_match == ModuleMatch(code)
      desc_match == DescMatch(code)
  IN [doc |-> ModuleDoc(IF module_match # <<>> THEN module_match[1] ELSE "Unknown",
                        IF desc_match # <<>> THEN desc_match[1]
                        ELSE "No description available",
                        FindIter("parameters", code, 1), FindIter("ports", code, 1),
                        FindIter("signals", code, 1),
                        FindExamples(self.testbench_content, 1, FALSE, <<>>)),
      self |-> [self EXCEPT !.testbench_content = <<>>]]

\* the ModuleDoc, and the generator object after the call: nothing is assigned
extract_module_info(self) ==
  LET code == self.verilog_content
      module_match == ModuleMatch(code)
      desc_match == DescMatch(code)
  IN [doc |-> ModuleDoc(IF module_match # <<>> THEN module_match[1] ELSE "Unknown",
                        IF desc_match # <<>> THEN desc_match[1]
                        ELSE "No description available",
                        FindIter("parameters", code, 1), FindIter("ports", code, 1),
                        FindIter("signals", code, 1),
                        FindExamples(self.testbench_content, 1, FALSE, <<>>)),
      self |-> self]

MaxDocLen == 3
MaxDocTestLen == 3
MaxExtractions == 2

\* DocGenerator(verilog_file, testbench_file) has read the two texts
InitDoc ==
  /\ fs = <<>>
  /\ loop = 0
  /\ run = [r \in Runs |-> NewRun]
  /\ call = NoCall
  /\ verilog_content \in TextsOver(DocLexemes, MaxDocLen)
  /\ testbench_content \in TextsOver(DocTestLexemes, MaxDocTestLen)
  /\ verification = <<>>
  /\ optimization = <<>>
  /\ optimized = <<>>
  /\ module_info = <<>>
  /\ response = <<>>
  /\ analyzer = <<>>

ExtractModuleInfo ==
  /\ Len(module_info) < MaxExtractions
  /\ LET res == extract_module_info([verilog_content |-> verilog_content,
                                      testbench_content |-> testbench_content])
     IN /\ module_info' = Append(module_info, res.doc)
        /\ verilog_content' = res.self.verilog_content
        /\ testbench_content' = res.self.testbench_content
  /\ UNCHANGED <<fs, loop, run, call, verification, optimization, optimized, response,
                 analyzer>>

NextDoc == ExtractModuleInfo

SpecDoc == InitDoc /\ [][NextDoc]_vars

-----------------------------------------------------------------------------
(* The operations of the analyzers, called in any order on one object: the   *)
(* four analyses and apply_optimizations of DesignOptimizer, the four        *)
(* verifications, generate_assertions and generate_coverage_model of         *)
(* DesignVerifier, extract_module_info of DocGenerator. Each class keeps the *)
(* texts it read when constructed; the model keeps them in one object, so    *)
(* that an assignment by any operation would be seen by every other.         *)

\* re.search(r'input.*reset', code): 'input', and 'reset' later on the line
SearchInputReset(code) ==
  \E i \in 1..Len(code), j \in 1..Len(code) :
    i < j /\ code[i] = PortIn /\ code[j] = "reset"

\* the blocks joined by "\n", each named by the property it declares
generate_assertions(code) ==
  (IF SearchInputReset(code) THEN <<"reset_assertion">> ELSE <<>>)
    \o (IF Search(AlwaysClk, code) THEN <<"pipeline_valid">> ELSE <<>>)

\* the covergroups joined by "\n", each by its name
generate_coverage_model(code) ==
  (IF Search("state", code) THEN <<"state_coverage">> ELSE <<>>)
    \o (IF Search("data", code) THEN <<"data_coverage">> ELSE <<>>)

Operations ==
  {"analyze_performance", "analyze_area", "analyze_power", "analyze_timing",
   "apply_optimizations", "verify_formal_properties", "verify_functional_coverage",
   "verify_assertions", "verify_code_coverage", "generate_assertions",
   "generate_coverage_model", "extract_module_info"}

\* what the operation returns on the object; apply_optimizations is given
\* the report of optimize_all, as optimize_design gives it
Result(op, self) ==
  LET code == self.verilog_content
      tb == self.testbench_content
  IN CASE op = "analyze_performance" -> analyze_performance(code)
       [] op = "analyze_area" -> analyze_area(code)
       [] op = "analyze_power" -> analyze_power(code)
       [] op = "analyze_timing" -> analyze_timing(code)
       [] op = "apply_optimizations" -> apply_optimizations(optimize_all(code), code)
       [] op = "verify_formal_properties" -> verify_formal_properties(code)
       [] op = "verify_functional_coverage" -> verify_functional_coverage(tb)
       [] op = "verify_assertions" -> verify_assertions(tb)
       [] op = "verify_code_coverage" -> verify_code_coverage(code, tb)
       [] op = "generate_assertions" -> generate_assertions(code)
       [] op = "generate_coverage_model" -> generate_coverage_model(code)
       [] op = "extract_module_info" -> extract_module_info(self).doc

\* a generate_assertions that adds what it generated to the testbench text
SelfAfterAppending(op, self) ==
  IF op = "generate_assertions"
  THEN [self EXCEPT !.testbench_content = @ \o <<"assert", "w">>]
  ELSE self

\* the object after the operation: the methods only read self.verilog_content
\* and self.testbench_content, none assigns to an attribute of self
SelfAfter(op, self) ==
  IF op = "extract_module_info" THEN extract_module_info(self).self ELSE self

AnalyzerLexemes == {AlwaysClk, WireVector, PortIn, "reset", "state", "data"}

MaxAnalyzerLen == 2
MaxCalls == 3

\* the object has read the two texts; analyzer keeps them as they were read,
\* the number of calls made, the operation called before the last one, and
\* the last operation with what it returned
InitAnalyzer ==
  /\ fs = <<>>
  /\ loop = 0
  /\ run = [r \in Runs |-> NewRun]
  /\ call = NoCall
  /\ verilog_content \in TextsOver(AnalyzerLexemes, MaxAnalyzerLen)
  /\ testbench_content \in {<<>>, FullTestbench}
  /\ verification = <<>>
  /\ optimization = <<>>
  /\ optimized = <<>>
  /\ module_info = <<>>
  /\ response = <<>>
  /\ analyzer = <<[constructed |-> [verilog_content |-> verilog_content,
                                     testbench_content |-> testbench_content],
                    made |-> 0, previous |-> None, last |-> <<>>]>>

Operate(op) ==
  /\ analyzer[1].made < MaxCalls
  /\ LET self == [verilog_content |-> verilog_content,
                  testbench_content |-> testbench_content]
         after == SelfAfter(op, self)
     IN /\ verilog_content' = after.verilog_content
        /\ testbench_content' = after.testbench_content
        /\ analyzer' =
             <<[analyzer[1] EXCEPT
                  !.made = @ + 1,
                  !.previous = IF analyzer[1].last = <<>> THEN None
                               ELSE analyzer[1].last[1].op,
                  !.last = <<[op |-> op, result |-> Result(op, self)]>>]>>
  /\ UNCHANGED <<fs, loop, run, call, verification, optimization, optimized,
                 module_info, response>>

NextAnalyzer == \E op \in Operations : Operate(op)

SpecAnalyzer == InitAnalyzer /\ [][NextAnalyzer]_vars


-----------------------------------------------------------------------------
(* get_design, in the REST agent (mcp_verilog_agent.py) and as a tool of the *)
(* server (mcp_server.py), on an output directory that holds a directory for *)
(* some design ids                                                           *)

DesignIds == {"counter", "fifo", "docs"}
StoredFiles == {<<"counter", ".v">>, <<"counter_tb", ".sv">>}

\* the output directory for a choice, per design id, of no directory (<<>>)
\* or a directory with some files (<<files>>)
StoreOf(content) ==
  LET present == {id \in DesignIds : content[id] # <<>>}
      paths == {Dir(id) : id \in present}
                 \cup UNION {{Path(<<id, "/", n[1]>>, n[2]) : n \in content[id][1]} :
                              id \in present}
  IN [q \in paths |-> IF q.ext = "" THEN Text("directory", 0) ELSE Text("stored", 0)]

Stores ==
  {StoreOf(content) :
     content \in [DesignIds -> {<<>>} \cup {<<files>> : files \in SUBSET StoredFiles}]}

Exception(type, status_code, detail) ==
  [type |-> type, status_code |-> status_code, detail |-> detail]

\* str(e): an HTTPException prints its status code before its detail
Str(e) ==
  IF e.type = "HTTPException" THEN <<"404: ">> \o e.detail ELSE e.detail

Returned(design_id, files, read) ==
  [design_id |-> design_id, raised |-> <<>>, files |-> <<files>>, read |-> read]

Raised(design_id, e, read) ==
  [design_id |-> design_id, raised |-> <<e>>, files |-> <<>>, read |-> read]

\* the body of the try block, the same in both files but for the exception
\* raised when the directory does not exist; fail says a read_text raises
TryGetDesign(f, design_id, not_found, fail) ==
  LET design_dir == Dir(design_id)
      file_paths == {q \in DOMAIN f : Under(q, design_id)}
  IN IF ~Exists(f, design_dir)
     THEN Raised(design_id, not_found, {})
     ELSE IF fail /\ file_paths # {}
          THEN Raised(design_id, Exception("OSError", <<>>, <<"read failed">>),
                      {CHOOSE q \in file_paths : TRUE})
          ELSE Returned(design_id, [q \in file_paths |-> f[q]], file_paths)

\* mcp_verilog_agent.py: except Exception catches the HTTPException as well
\* and raises HTTPException(status_code=500, detail=str(e))
agent_get_design(f, design_id, fail) ==
  LET res == TryGetDesign(f, design_id,
                          Exception("HTTPException", <<404>>, <<"Design not found">>), fail)
  IN IF res.raised # <<>>
     THEN Raised(design_id, Exception("HTTPException", <<500>>, Str(res.raised[1])),
                 res.read)
     ELSE res

\* mcp_server.py: except Exception logs and raises the exception again
server_get_design(f, design_id, fail) ==
  TryGetDesign(f, design_id, Exception("ValueError", <<>>, <<"Design not found">>), fail)

InitGet ==
  /\ fs \in Stores
  /\ loop = 0
  /\ run = [r \in Runs |-> NewRun]
  /\ call = NoCall
  /\ verilog_content = <<>>
  /\ testbench_content = <<>>
  /\ verification = <<>>
  /\ optimization = <<>>
  /\ optimized = <<>>
  /\ module_info = <<>>
  /\ response = <<>>
  /\ analyzer = <<>>

GetDesignDone(handler, res) ==
  /\ response' = <<[handler |-> handler, design_id |-> res.design_id,
                     raised |-> res.raised, files |-> res.files, read |-> res.read]>>
  /\ UNCHANGED <<fs, loop, run, call, verilog_content, testbench_content, verification,
                 optimization, optimized, module_info, analyzer>>

AgentGetDesign ==
  \E design_id \in DesignIds, fail \in BOOLEAN :
    GetDesignDone("agent", agent_get_design(fs, design_id, fail))

ServerGetDesign ==
  \E design_id \in DesignIds, fail \in BOOLEAN :
    GetDesignDone("server", server_get_design(fs, design_id, fail))

NextGet == AgentGetDesign \/ ServerGetDesign

SpecGet == InitGet /\ [][NextGet]_vars

-----------------------------------------------------------------------------
(* Claims about the verification analyzer (SpecVerify)                       *)

Verified == verification # <<>>
Dimension(t) == verification[1].verifications[t]
Issues(t) == {Dimension(t).issues[i] : i \in 1..Len(Dimension(t).issues)}

\* C7 as stated: in every dimension passed is true exactly when the
\* dimension's issues are empty.
C7_PassedIffNoIssues ==
  Verified =>
    \A t \in {"formal", "functional", "assertion", "coverage"} :
      Dimension(t).passed <=> Dimension(t).issues = <<>>

\* C7 as amended: in the formal, functional and assertion dimensions passed is
\* true exactly when the issues are empty; in the coverage dimension empty
\* issues imply passed, and a passed result holds no issue other than
\* 'Missing default case in case statements'.
C7_PassedIffNoIssuesButCoverage ==
  Verified =>
    /\ \A t \in {"formal", "functional", "assertion"} :
         Dimension(t).passed <=> Dimension(t).issues = <<>>
    /\ Dimension("coverage").issues = <<>> => Dimension("coverage").passed
    /\ Dimension("coverage").passed =>
         Issues("coverage") \subseteq {"Missing default case in case statements"}

\* C7 witness: functional passes with no issue while coverage passes with one
C7_Witness ==
  /\ Verified
  /\ Dimension("functional").passed
  /\ Dimension("functional").issues = <<>>
  /\ Dimension("assertion").issues # <<>>
  /\ Dimension("coverage").passed
  /\ Dimension("coverage").issues # <<>>

\* C8: in every dimension the coverage value lies in [0, 100].
C8_CoverageWithinRange ==
  Verified =>
    \A t \in {"formal", "functional", "assertion", "coverage"} :
      /\ AtLeast(Dimension(t).coverage, Float(0))
      /\ AtLeast(Float(100), Dimension(t).coverage)

\* C9: code coverage passes exactly when the coverage is at least 80, the
\* 'Low code coverage' issue is present exactly when it is below 80, and a
\* source without statements has coverage 0 and does not pass.
C9_CodeCoveragePassedIffAtLeast80 ==
  Verified =>
    /\ Dimension("coverage").passed <=> AtLeast(Dimension("coverage").coverage, Float(80))
    /\ "Low code coverage" \in Issues("coverage")
         <=> Less(Dimension("coverage").coverage, Float(80))
    /\ FindAllSemicolons(verilog_content, 1) = 0 =>
         /\ Dimension("coverage").coverage = Float(0)
         /\ ~Dimension("coverage").passed

\* C9 witness: no statement in the source, covered statements in the testbench
C9_Witness ==
  /\ Verified
  /\ FindAllSemicolons(verilog_content, 1) = 0
  /\ FindAllCovered(testbench_content, 1, FALSE) > 0
  /\ ~Dimension("coverage").passed

\* C10: a source with no property declaration has formal coverage 0, the
\* issue 'No formal properties defined', and does not pass.
C10_NoPropertyNoFormalCoverage ==
  (Verified /\ FindAllDeclared("property", verilog_content, 1) = 0) =>
    /\ Dimension("formal").coverage = Float(0)
    /\ "No formal properties defined" \in Issues("formal")
    /\ ~Dimension("formal").passed

\* C10 witness: a source with the keyword and an assumption, but no declaration
C10_Witness ==
  /\ Verified
  /\ FindAllDeclared("property", verilog_content, 1) = 0
  /\ SearchDeclared("assume", verilog_content)
  /\ "No formal properties defined" \in Issues("formal")

\* the declarations of a text: the keyword followed by the name it declares
Declarations(keyword, text) ==
  Cardinality({i \in 1..(Len(text) - 1) : text[i] = keyword /\ text[i + 1] = "w"})

\* C11: a source with exactly N >= 1 property declarations has formal coverage
\* min(100, 20 N) and no 'No formal properties defined' issue.
C11_FormalCoverageByDeclarations ==
  (Verified /\ Declarations("property", verilog_content) >= 1) =>
    /\ Same(Dimension("formal").coverage,
            Smaller(Float(100), Float(20 * Declarations("property", verilog_content))))
    /\ "No formal properties defined" \notin Issues("formal")

\* the occurrences of a keyword in a text
Occurrences(keyword, text) == Cardinality({i \in 1..Len(text) : text[i] = keyword})

\* every occurrence of the keyword is followed by the name it declares
Named(keyword, text) ==
  \A i \in 1..Len(text) : text[i] = keyword => (i < Len(text) /\ text[i + 1] = "w")

\* C12: a testbench with c covergroup declarations and a assert occurrences
\* has functional coverage min(100, 25 c) and assertion coverage
\* min(100, 10 a); 'No coverage groups defined' is present exactly when
\* c = 0 and 'No assertions defined' exactly when a = 0.
C12_CoverageByCounts ==
  (Verified /\ Named("covergroup", testbench_content)) =>
    LET c == Occurrences("covergroup", testbench_content)
        a == Occurrences("assert", testbench_content)
    IN /\ Same(Dimension("functional").coverage, Smaller(Float(100), Float(25 * c)))
       /\ Same(Dimension("assertion").coverage, Smaller(Float(100), Float(10 * a)))
       /\ "No coverage groups defined" \in Issues("functional") <=> c = 0
       /\ "No assertions defined" \in Issues("assertion") <=> a = 0

\* C13: a source without an assume token has the issue 'No assumptions
\* defined' whatever its number of property declarations, so the formal
\* dimension passes only with at least one declaration and an assume token.
C13_NoAssumeAlwaysFound ==
  Verified =>
    /\ Occurrences("assume", verilog_content) = 0 =>
         "No assumptions defined" \in Issues("formal")
    /\ Dimension("formal").passed =>
         /\ Declarations("property", verilog_content) >= 1
         /\ Occurrences("assume", verilog_content) >= 1

\* C13 witness: five declarations, coverage 100, no assume token, not passed
C13_Witness ==
  /\ Verified
  /\ Declarations("property", verilog_content) >= 5
  /\ Occurrences("assume", verilog_content) = 0
  /\ Same(Dimension("formal").coverage, Float(100))
  /\ "No assumptions defined" \in Issues("formal")
  /\ ~Dimension("formal").passed

Summary == verification[1].summary

\* C14: the summary agrees with the four dimensions: total_issues and
\* total_suggestions are the sums of their issue and suggestion counts,
\* average_coverage is the mean of their coverages, and all_passed is the
\* conjunction of their passed flags.
C14_SummaryConsistent ==
  Verified =>
    /\ Summary.total_issues =
         Len(Dimension("formal").issues) + Len(Dimension("functional").issues)
         + Len(Dimension("assertion").issues) + Len(Dimension("coverage").issues)
    /\ Summary.total_suggestions =
         Len(Dimension("formal").suggestions) + Len(Dimension("functional").suggestions)
         + Len(Dimension("assertion").suggestions) + Len(Dimension("coverage").suggestions)
    /\ Same(Times(Summary.average_coverage, 4),
            Plus(Plus(Dimension("formal").coverage, Dimension("functional").coverage),
                 Plus(Dimension("assertion").coverage, Dimension("coverage").coverage)))
    /\ Summary.all_passed <=>
         (/\ Dimension("formal").passed /\ Dimension("functional").passed
          /\ Dimension("assertion").passed /\ Dimension("coverage").passed)

\* C14 witness: some dimensions pass and others do not, with issues to count
\* and a positive average
C14_Witness ==
  /\ Verified
  /\ Dimension("functional").passed
  /\ Dimension("coverage").passed
  /\ ~Dimension("formal").passed
  /\ Summary.total_issues >= 2
  /\ Less(Float(0), Summary.average_coverage)
  /\ ~Summary.all_passed

\* C20: whatever the source, a testbench with no assertion and no covergroup
\* gives all_passed false, 'No assertions defined' in the assertion dimension
\* and 'No coverage groups defined' in the functional dimension.
C20_BareTestbenchFails ==
  (/\ Verified
   /\ Occurrences("assert", testbench_content) = 0
   /\ Occurrences("covergroup", testbench_content) = 0) =>
    /\ ~Summary.all_passed
    /\ "No assertions defined" \in Issues("assertion")
    /\ "No coverage groups defined" \in Issues("functional")

\* C20 witness: a testbench with a coverage point and a clocked statement,
\* but no assertion and no covergroup
C20_Witness ==
  /\ Verified
  /\ Occurrences("assert", testbench_content) = 0
  /\ Occurrences("covergroup", testbench_content) = 0
  /\ SearchDeclared("coverpoint", testbench_content)
  /\ SearchTemporal(testbench_content)
  /\ verilog_content # <<>>
  /\ "No coverage groups defined" \in Issues("functional")

-----------------------------------------------------------------------------
(* Claims about the optimization analyzer (SpecOptimize)                     *)

SuggestedChanges(type) == optimization[1].optimizations[type].suggested_changes

\* the hooks apply_optimizations dispatches for the report
Dispatched ==
  {t \in {"performance", "area", "power"} :
     \E i \in 1..Len(SuggestedChanges(t)) :
       \E trigger \in {"pipeline balancing", "resource sharing", "clock gating"} :
         Mentions(SuggestedChanges(t)[i], trigger)}

\* C15: apply_optimizations returns the source text unchanged, when the
\* report of optimize_all mentions no trigger and when it mentions some.
C15_ApplyReturnsSource ==
  optimized # <<>> => optimized[1] = verilog_content

\* C15 witness: all three hooks were dispatched and the source is returned
C15_Witness ==
  /\ optimized # <<>>
  /\ Dispatched = {"performance", "area", "power"}
  /\ optimized[1] = verilog_content

-----------------------------------------------------------------------------
(* Claims about the documentation generator (SpecDoc)                        *)

\* C16: two calls of extract_module_info on the same generator return
\* ModuleDocs equal in name, description, parameters, ports, signals and
\* examples, sequences in the same order.
C16_ExtractionIdempotent ==
  Len(module_info) >= 2 =>
    \A field \in {"name", "description", "parameters", "ports", "signals", "examples"} :
      module_info[1][field] = module_info[2][field]

\* C16 witness: two calls, on a source with two ports and a testbench with
\* an example
C16_Witness ==
  /\ Len(module_info) >= 2
  /\ Len(module_info[1].ports) >= 2
  /\ module_info[1].ports[1] # module_info[1].ports[2]
  /\ Len(module_info[2].examples) >= 1

-----------------------------------------------------------------------------
(* Claims about get_design (SpecGet)                                         *)

\* C17: a get_design for an id without a directory ends in a not-found
\* condition, HTTP 404 in the REST agent and 'Design not found' in the
\* server's tool, and has read no file.
C17_AbsentDesignNotFound ==
  (response # <<>> /\ ~Exists(fs, Dir(response[1].design_id))) =>
    /\ response[1].raised # <<>>
    /\ response[1].read = {}
    /\ IF response[1].handler = "agent"
       THEN response[1].raised[1].status_code = <<404>>
       ELSE response[1].raised[1].detail = <<"Design not found">>

\* C18: on an empty source and an empty testbench verify_all and
\* optimize_all return: every coverage is a number, every dimension of the
\* verification holds at least one issue, all_passed is false, and the
\* optimization report is the empty one.
C18_EmptyTextsGiveFindings ==
  (verilog_content = <<>> /\ testbench_content = <<>>) =>
    /\ Verified =>
         /\ \A t \in {"formal", "functional", "assertion", "coverage"} :
              /\ Dimension(t).coverage.den > 0
              /\ Len(Dimension(t).issues) >= 1
              /\ ~Dimension(t).passed
         /\ ~Summary.all_passed
    /\ optimization # <<>> =>
         /\ optimization[1].summary.total_improvements = 0
         /\ optimization[1].summary.total_suggestions = 0

\* C18 witness: both analyzers have returned for the empty texts
C18_Witness ==
  /\ verilog_content = <<>>
  /\ testbench_content = <<>>
  /\ Verified
  /\ optimization # <<>>
  /\ Summary.total_issues = 7

-----------------------------------------------------------------------------
(* Claims about the aggregate process_design returns (Spec)                  *)

\* the files the aggregate of a returned run names
AggregateFiles(res) ==
  {res.files.original.verilog, res.files.original.testbench, res.files.optimized,
   res.files.verification.assertions, res.files.verification.coverage}
    \cup {res.files.documentation[fmt] : fmt \in DOMAIN res.files.documentation}

\* C19: the aggregate of a run that returned names the original source and
\* testbench, the optimized source, the assertions and the coverage model,
\* one documentation file per format, and holds both reports; each of these
\* files was written by that run.
C19_AggregateNamesWrittenFiles ==
  \A r \in Runs :
    (run[r].pc = "returned" /\ run[r].failed = None) =>
      LET res == run[r].result[1]
      IN /\ DOMAIN res.files.documentation = DocFormats
         /\ DOMAIN res.reports = {"optimization", "verification"}
         /\ AggregateFiles(res) \subseteq run[r].wrote

-----------------------------------------------------------------------------
(* Claims about the optimization report (SpecOptimize)                       *)

Optimized == optimization # <<>>
Analysis(type) == optimization[1].optimizations[type]
Improvements(type) ==
  {Analysis(type).improvements[i] : i \in 1..Len(Analysis(type).improvements)}

-----------------------------------------------------------------------------
(* More claims about the verification analyzer (SpecVerify)                  *)

\* the source holds an if or case token, and no default-branch token
BranchWithoutDefault(text) ==
  /\ \E i \in 1..Len(text) : text[i] \in {"if", "case", CompactIf, IfElseChain}
  /\ \A i \in 1..Len(text) : text[i] # "default:"

\* C23: a source with an if/case token and no default-branch token has the
\* issue 'Missing default case in case statements' in the coverage
\* dimension, whatever the coverage, also when the dimension passed.
C23_MissingDefaultAlwaysFound ==
  (Verified /\ BranchWithoutDefault(verilog_content)) =>
    "Missing default case in case statements" \in Issues("coverage")

\* C23 witness: coverage at least 80, passed, and the issue is there
C23_Witness ==
  /\ Verified
  /\ BranchWithoutDefault(verilog_content)
  /\ AtLeast(Dimension("coverage").coverage, Float(80))
  /\ Dimension("coverage").passed
  /\ "Missing default case in case statements" \in Issues("coverage")

-----------------------------------------------------------------------------
(* Claims about the data flow of process_design (Spec)                       *)

\* the paths a stage of run r that returned had read
PathsRead(r, stage) == {rd[2] : rd \in {x \in run[r].read : x[1] = stage}}

Completed(r, stage) == \E i \in 1..Len(run[r].completed) : run[r].completed[i] = stage

\* C24: Optimize is given the original source only; Verify and Document are
\* given the optimized source written by Optimize, never the original, and
\* the original testbench.
C24_StagesGivenOptimizedSource ==
  \A r \in Runs :
    LET original == run[r].files[1].verilog
        testbench == run[r].files[1].testbench
    IN /\ Completed(r, "Optimize") => PathsRead(r, "Optimize") = {original}
       /\ \A stage \in {"Verify", "Document"} :
            Completed(r, stage) =>
              PathsRead(r, stage) = {OptimizedFile(original), testbench}

\* C24 witness: a run whose four stages returned
C24_Witness ==
  \E r \in Runs :
    /\ run[r].pc = "returned"
    /\ Completed(r, "Document")
    /\ PathsRead(r, "Verify") # {}
    /\ PathsRead(r, "Optimize") # PathsRead(r, "Document")

\* the texts a stage of run r that returned had read from a path
TextsRead(r, stage, p) ==
  {rd[3] : rd \in {x \in run[r].read : x[1] = stage /\ x[2] = p}}

\* C25: when Optimize has returned, the optimized file holds the text of the
\* original source file and the original is as Optimize read it; Verify and
\* Document then read that same text from the optimized file.
C25_OptimizedFileEqualsSource ==
  \A r \in Runs :
    LET original == run[r].files[1].verilog
        optimized_file == OptimizedFile(original)
    IN /\ run[r].pc = "verify" =>
            /\ Exists(fs, original) /\ Exists(fs, optimized_file)
            /\ fs[optimized_file] = fs[original]
            /\ TextsRead(r, "Optimize", original) = {fs[original]}
       /\ \A stage \in {"Verify", "Document"} :
            Completed(r, stage) =>
              TextsRead(r, stage, optimized_file) = TextsRead(r, "Optimize", original)

\* C25 witness: Optimize has just returned and Verify has not started
C25_Witness ==
  \E r \in Runs :
    /\ run[r].pc = "verify"
    /\ Completed(r, "Optimize")
    /\ fs[OptimizedFile(run[r].files[1].verilog)] = fs[run[r].files[1].verilog]

\* C26: when generate_design has returned, the source and testbench paths it
\* returned are the paths the generator wrote in that call, so that the
\* source it names is there for Optimize to read.
C26_ReturnedPathsWereWritten ==
  \A r \in Runs :
    Completed(r, "Generate") =>
      LET files == run[r].files[1]
      IN /\ {files.verilog, files.testbench} =
              {ModuleFile(run[r].plan), TestbenchFile(run[r].plan)}
         /\ {files.verilog, files.testbench} \subseteq run[r].wrote
         /\ run[r].pc = "optimize" => Exists(fs, files.verilog)

\* C27: every dimension of both reports has as many suggestions as issues
\* (improvements), and so each summary's total of issues (improvements)
\* equals its total_suggestions.
C27_FindingsArePairs ==
  /\ Verified =>
       /\ \A t \in DOMAIN verification[1].verifications :
            Len(Dimension(t).issues) = Len(Dimension(t).suggestions)
       /\ Summary.total_issues = Summary.total_suggestions
  /\ Optimized =>
       /\ \A type \in DOMAIN optimization[1].optimizations :
            Len(Analysis(type).improvements) = Len(Analysis(type).suggested_changes)
       /\ optimization[1].summary.total_improvements =
            optimization[1].summary.total_suggestions

\* C27 witness: both reports are there and each holds several findings
C27_Witness ==
  /\ Verified /\ Optimized
  /\ Summary.total_issues >= 2
  /\ optimization[1].summary.total_improvements >= 3
  /\ \E type \in DOMAIN optimization[1].optimizations :
       Len(Analysis(type).improvements) = 2

\* C28: the power and timing metrics are the same for every source:
\* has_clock_gating and has_async_reset are false and the two suggested
\* metrics are true, also when the source holds a clock-gating or an
\* asynchronous-reset token, and then the finding of that check is absent.
C28_MetricsAreConstant ==
  Optimized =>
    /\ Analysis("power").original_metrics = [has_clock_gating |-> FALSE]
    /\ Analysis("power").optimized_metrics = [suggested_clock_gating |-> TRUE]
    /\ Analysis("timing").original_metrics = [has_async_reset |-> FALSE]
    /\ Analysis("timing").optimized_metrics = [suggested_async_reset |-> TRUE]
    /\ Search(ClockEnable, verilog_content) =>
         "No clock gating detected" \notin Improvements("power")
    /\ Search(AsyncReset, verilog_content) =>
         "Synchronous reset detected" \notin Improvements("timing")

\* C28 witness: a clocked source with a clock enable and an asynchronous reset
C28_Witness ==
  /\ Optimized
  /\ Search(AlwaysClk, verilog_content)
  /\ Search(ClockEnable, verilog_content)
  /\ Search(AsyncReset, verilog_content)
  /\ Improvements("power") = {} /\ Improvements("timing") = {}

\* C29: no operation of an analyzer changes the texts the object read when
\* it was constructed, and whatever was called before, in whatever order,
\* an operation returns what it returns as the first call on the object.
C29_OperationsLeaveObjectAlone ==
  analyzer # <<>> =>
    /\ verilog_content = analyzer[1].constructed.verilog_content
    /\ testbench_content = analyzer[1].constructed.testbench_content
    /\ analyzer[1].last # <<>> =>
         analyzer[1].last[1].result =
           Result(analyzer[1].last[1].op, analyzer[1].constructed)

\* C29 witness: verify_assertions as the third call, after generate_assertions
\* had generated an assertion, on a testbench with no assertion
C29_Witness ==
  /\ analyzer # <<>>
  /\ analyzer[1].made = 3
  /\ analyzer[1].previous = "generate_assertions"
  /\ analyzer[1].last # <<>>
  /\ analyzer[1].last[1].op = "verify_assertions"
  /\ generate_assertions(verilog_content) # <<>>
  /\ testbench_content = <<>>

\* C30: a validation that fails does not fail generate: Generate completes
\* with the source and the testbench written and no warnings file; a failure
\* of the analysis, of the source generation or of the testbench generation
\* ends the call at once, with nothing more written and no later step run.
C30_OnlyValidationFailureSwallowed ==
  /\ [](\A r \in Runs :
          run[r].validation = "raised" =>
            /\ Completed(r, "Generate")
            /\ {ModuleFile(run[r].plan), TestbenchFile(run[r].plan)} \subseteq run[r].wrote
            /\ WarningsFile(run[r].plan) \notin run[r].wrote)
  /\ [][\A r \in Runs :
          /\ (/\ run[r].pc \in {"analyze", "generate_verilog", "generate_testbench"}
              /\ run'[r].pc \notin {"generate_verilog", "generate_testbench", "validate"}
              /\ run'[r] # run[r]) =>
                /\ run'[r].pc = "raised" /\ run'[r].failed = "Generate"
                /\ run'[r].wrote = run[r].wrote /\ fs' = fs
                /\ run'[r].validation = None /\ run'[r].completed = <<>>
          /\ run[r].pc = "raised" => run'[r] = run[r]]_vars

\* C30 witness: a call whose validation failed and whose Generate completed
C30_Witness ==
  \E r \in Runs :
    /\ run[r].validation = "raised"
    /\ Completed(r, "Generate")
    /\ ModuleFile(run[r].plan) \in run[r].wrote

====
